---- MODULE Spec2Model ----
(***************************************************************************)
(* A model of the HMM training engine of LACHESIS (include/markov/HMM.cc). *)
(*                                                                         *)
(* Numbers.  The program stores probabilities as natural logarithms in     *)
(* doubles.  The model keeps every such double exactly, as the logarithm   *)
(* of a non-negative rational: <<"ln", n, d>> stands for the double        *)
(* log(n/d), with n/d in lowest terms.  LOG_ZERO is log(0).  Adding two    *)
(* logarithms multiplies their arguments, lnsum adds them, subtracting     *)
(* divides them.  A real-valued double (an input probability, a state      *)
(* frequency) is <<"re", n, d>>.  A logarithm to base 2 (the returned      *)
(* log-likelihood in bits) is <<"lb", n, d>>.  Rounding is not modelled.   *)
(***************************************************************************)
EXTENDS Integers, Sequences, FiniteSets, TLC

\* ------------------------------------------------------------------ bounds
MaxStates == 2      \* N_states ranges over 1..MaxStates
MaxSymbols == 2     \* N_symbols ranges over 0..MaxSymbols (0 = continuous)
MaxTime == 2        \* observation sequences / time tables have at most MaxTime rows
MaxTrain == 2       \* at most MaxTrain training calls on one HMM

\* ------------------------------------------------------- exact arithmetic
RECURSIVE GCD(_, _)
GCD(a, b) == IF b = 0 THEN a ELSE GCD(b, a % b)

\* the fraction n/d (d > 0, n >= 0) in lowest terms, as a pair
Frac(n, d) == LET g == GCD(n, d) IN IF n = 0 THEN <<0, 1>> ELSE <<n \div g, d \div g>>

FMul(p, q) ==
    LET g1 == GCD(p[1], q[2])
        g2 == GCD(q[1], p[2])
    IN  IF p[1] = 0 \/ q[1] = 0 THEN <<0, 1>>
        ELSE <<(p[1] \div g1) * (q[1] \div g2), (p[2] \div g2) * (q[2] \div g1)>>

FAdd(p, q) ==
    LET g == GCD(p[2], q[2])
    IN  Frac(p[1] * (q[2] \div g) + q[1] * (p[2] \div g), (p[2] \div g) * q[2])

\* p / q, q # 0
FDiv(p, q) == FMul(p, <<q[2], q[1]>>)

FLess(p, q) == p[1] * q[2] < q[1] * p[2]

\* ------------------------------------------------------------ the doubles
Re(n, d) == LET f == Frac(n, d) IN <<"re", f[1], f[2]>>
Ln(n, d) == LET f == Frac(n, d) IN <<"ln", f[1], f[2]>>
Arg(x) == <<x[2], x[3]>>
NaN == <<"nan", 0, 0>>
IsNaN(x) == x[1] = "nan"

\* the sentinel of MarkovModel.h, log(0)
LOG_ZERO == <<"ln", 0, 1>>

\* log(x) of <math.h>, x a real >= 0: log(0) is minus infinity, which the
\* specification identifies with LOG_ZERO
Log(x) == <<"ln", x[2], x[3]>>

\* exp(x) of <math.h>: exp(LOG_ZERO) = 0
Exp(x) == IF IsNaN(x) THEN NaN ELSE <<"re", x[2], x[3]>>

\* a + b on two logarithms; LOG_ZERO absorbs
LAdd(a, b) ==
    IF IsNaN(a) \/ IsNaN(b) THEN NaN
    ELSE LET f == FMul(Arg(a), Arg(b)) IN <<"ln", f[1], f[2]>>

\* lnsum(a, b) = log(exp(a) + exp(b)); LOG_ZERO is its identity
lnsum(a, b) ==
    IF IsNaN(a) \/ IsNaN(b) THEN NaN
    ELSE LET f == FAdd(Arg(a), Arg(b)) IN <<"ln", f[1], f[2]>>

\* a < b on two logarithms
LLess(a, b) == FLess(Arg(a), Arg(b))

\* a - b on two logarithms.  LOG_ZERO - LOG_ZERO has no value the two
\* readings of LOG_ZERO agree on: minus infinity gives NaN, a finite
\* sentinel gives 0.0 = log(1); inf says which build this is.
LSub(a, b, inf) ==
    IF IsNaN(a) \/ IsNaN(b) THEN NaN
    ELSE IF b = LOG_ZERO
         THEN (IF a = LOG_ZERO THEN (IF inf THEN NaN ELSE Ln(1, 1)) ELSE NaN)
         ELSE LET f == FDiv(Arg(a), Arg(b)) IN <<"ln", f[1], f[2]>>

\* alpha / log(2): nats to bits
ToBits(a) == IF IsNaN(a) THEN NaN ELSE <<"lb", a[2], a[3]>>

\* ---------------------------------------------------------------- helpers
RECURSIVE SeqSum(_)
SeqSum(s) == IF s = <<>> THEN 0 ELSE Head(s) + SeqSum(Tail(s))

RECURSIVE FoldLnsum(_, _)
\* denom = LOG_ZERO; for j: denom = lnsum(denom, s[j])
FoldLnsum(acc, s) == IF s = <<>> THEN acc ELSE FoldLnsum(lnsum(acc, Head(s)), Tail(s))

RECURSIVE FoldRe(_, _)
FoldRe(acc, s) == IF s = <<>> THEN acc ELSE FoldRe(FAdd(acc, Arg(Head(s))), Tail(s))

\* sum of a vector of reals, as a fraction
ReSum(s) == FoldRe(<<0, 1>>, s)

\* ------------------------------------------------------------------ state
VARIABLES
    N_states,                \* MarkovModel::_N_states
    N_symbols,               \* HMM::_N_symbols; 0 = continuous HMM
    log_zero_inf,            \* the build: LOG_ZERO is minus infinity (TRUE) or finite
    has_init_probs, has_trans_probs,
    has_symbol_emiss_probs, has_observations, has_time_emiss_probs,
    ran_viterbi, ran_baum_welch,
    init_probs,              \* _init_probs[i], logarithms
    trans_probs,             \* _trans_probs[i][j], logarithms
    symbol_emiss_probs,      \* _symbol_emiss_probs[i][s], logarithms
    observations,            \* _observations[t], symbols counted from 0
    time_emiss_probs,        \* _time_emiss_probs[t][i], logarithms
    state_freqs,             \* _state_freqs[i], reals
    last_op,                 \* the member function called last
    last_err,                \* "" or the assertion / error that ended it
    change,                  \* the bool a training call returned
    predicted_states,        \* ViterbiTraining's output vector (state ids from 0)
    log_like,                \* BaumWelchTraining's output log_like
    best_edges,              \* wdag._best_edges of the last Viterbi call
    pre,                     \* the store as the last training call found it, with
                             \* the training call before it (op) and its outputs
    n_train,                 \* training calls made so far
    halted                   \* the process ended: a failed assert, or undefined behaviour

flags == <<has_init_probs, has_trans_probs, has_symbol_emiss_probs,
           has_observations, has_time_emiss_probs>>
tables == <<init_probs, trans_probs, symbol_emiss_probs, observations,
            time_emiss_probs, state_freqs>>
results == <<change, predicted_states, log_like, best_edges>>
vars == <<N_states, N_symbols, log_zero_inf, flags, ran_viterbi, ran_baum_welch,
          tables, last_op, last_err, results, pre, n_train, halted>>

States == 1..N_states
Symbols == 1..N_symbols

is_discrete_HMM == N_symbols > 0

Snapshot ==
    [flags |-> flags, init |-> init_probs, trans |-> trans_probs,
     emiss |-> symbol_emiss_probs, freqs |-> state_freqs,
     obs |-> observations, temiss |-> time_emiss_probs,
     op |-> IF n_train = 0 THEN "" ELSE last_op,
     change |-> change, log_like |-> log_like]

\* ----------------------------------------------------- what callers supply
\* probability vectors of dimension n: the point masses, the uniform vector
\* and a skewed one
PointMass(n, k) == [j \in 1..n |-> IF j = k THEN Re(1, 1) ELSE Re(0, 1)]
Uniform(n) == [j \in 1..n |-> Re(1, n)]
Skewed(n, k) == [j \in 1..n |-> IF j = k THEN Re(2, n + 1) ELSE Re(1, n + 1)]
ProbVectors(n) ==
    {PointMass(n, k) : k \in 1..n} \cup {Uniform(n)} \cup {Skewed(n, k) : k \in 1..n}

\* vectors assert_prob_vector refuses: a wrong length, a sum that is not 1
BadVectors(n) == {Uniform(n + 1), [j \in 1..n |-> Re(1, n + 1)]}

\* n x m matrices of probability rows
Wrap(k, m) == ((k - 1) % m) + 1
ProbMatrices(n, m) ==
    { [i \in 1..n |-> Uniform(m)],
      [i \in 1..n |-> PointMass(m, Wrap(i, m))],
      [i \in 1..n |-> PointMass(m, Wrap(i + 1, m))],
      [i \in 1..n |-> PointMass(m, 1)],
      [i \in 1..n |-> Skewed(m, Wrap(i, m))] }

\* matrices a setter refuses: a missing row, a row that is no distribution
BadMatrices(n, m) ==
    { [i \in 1..(n - 1) |-> Uniform(m)],
      [i \in 1..n |-> [j \in 1..m |-> Re(1, m + 1)]] }

\* observation vectors: any length up to MaxTime, symbols 0..N_symbols, of
\* which N_symbols itself is outside the alphabet
RECURSIVE SeqsUpTo(_, _)
SeqsUpTo(S, n) ==
    IF n = 0 THEN {<<>>}
    ELSE LET shorter == SeqsUpTo(S, n - 1)
         IN  shorter \cup {Append(s, x) : s \in {q \in shorter : Len(q) = n - 1}, x \in S}
ObservationInputs == SeqsUpTo(0..N_symbols, MaxTime)

\* time-emission log-likelihoods a caller supplies: log(1), log(1/2)
TimeEmissValues == {Ln(1, 1), Ln(1, 2)}
TimeEmissRows(n) == [1..n -> TimeEmissValues]
TimeEmissInputs == SeqsUpTo(TimeEmissRows(N_states), MaxTime) \ {<<>>}
\* tables SetTimeEmissProbs refuses: empty, a short row, a LOG_ZERO entry
BadTimeEmissInputs ==
    { <<>>,
      <<[j \in 1..(N_states + 1) |-> Ln(1, 1)]>>,
      <<[j \in 1..N_states |-> IF j = N_states THEN LOG_ZERO ELSE Ln(1, 2)]>>,
      <<[j \in 1..N_states |-> Ln(1, 2)],
        [j \in 1..N_states |-> IF j = 1 THEN LOG_ZERO ELSE Ln(1, 1)]>> }

\* ------------------------------------------------------------ construction
\* HMM::HMM( N_states, N_symbols ) after MarkovModel( N_states )
Init ==
    /\ N_states \in 1..MaxStates
    /\ N_symbols \in 0..MaxSymbols
    /\ log_zero_inf \in BOOLEAN
    /\ has_init_probs = FALSE
    /\ has_trans_probs = FALSE
    /\ has_symbol_emiss_probs = FALSE
    /\ has_observations = FALSE
    /\ has_time_emiss_probs = FALSE
    /\ ran_viterbi = FALSE
    /\ ran_baum_welch = FALSE
    /\ init_probs = <<>>
    /\ trans_probs = <<>>
    /\ symbol_emiss_probs = <<>>
    /\ observations = <<>>
    /\ time_emiss_probs = <<>>
    /\ state_freqs = <<>>
    /\ last_op = "HMM"
    /\ last_err = ""
    /\ change = FALSE
    /\ predicted_states = <<>>
    /\ log_like = <<"lb", 0, 1>>
    /\ best_edges = <<>>
    /\ pre = [flags |-> <<FALSE, FALSE, FALSE, FALSE, FALSE>>, init |-> <<>>,
              trans |-> <<>>, emiss |-> <<>>, freqs |-> <<>>, obs |-> <<>>,
              temiss |-> <<>>, op |-> "", change |-> FALSE,
              log_like |-> <<"lb", 0, 1>>]
    /\ n_train = 0
    /\ halted = FALSE

NoFlags == <<FALSE, FALSE, FALSE, FALSE, FALSE>>
NoSnapshot ==
    [flags |-> NoFlags, init |-> <<>>, trans |-> <<>>, emiss |-> <<>>,
     freqs |-> <<>>, obs |-> <<>>, temiss |-> <<>>, op |-> "", change |-> FALSE,
     log_like |-> <<"lb", 0, 1>>]

\* a call starts: the process is alive; remember the store as it is
Called(op) ==
    /\ ~halted
    /\ last_op' = op
    /\ pre' = Snapshot

\* what a call that returns no such output leaves in the output variables
NoChange == FALSE
NoStates == <<>>
NoLogLike == <<"lb", 0, 1>>
NoEdges == <<>>

\* a setter is called.  Data is loaded before training starts and stays
\* fixed while training is iterated (the caller convention)
SetterCalled(op) ==
    /\ ~halted
    /\ n_train = 0
    /\ last_op' = op
    /\ change' = NoChange
    /\ predicted_states' = NoStates
    /\ log_like' = NoLogLike
    /\ best_edges' = NoEdges
    /\ UNCHANGED <<n_train, N_states, N_symbols, log_zero_inf, ran_viterbi,
                   ran_baum_welch, state_freqs>>

\* assert( ... ) failed: the process aborts with the store as it stands
AssertFails(what) ==
    /\ last_err' = what
    /\ halted' = TRUE

Returns ==
    /\ last_err' = ""
    /\ halted' = FALSE

\* a setter returns; the store before it is not remembered
SetterReturns ==
    /\ Returns
    /\ pre' = NoSnapshot

\* an assert of a setter failed; the flags before the call are remembered
SetterFails(what) ==
    /\ AssertFails(what)
    /\ pre' = [NoSnapshot EXCEPT !.flags = flags]

\* ----------------------------------------------------------------- setters
\* assert_prob_vector( v, n ): n entries, each in [0,1], summing to 1
assert_prob_vector(v, n) ==
    /\ Len(v) = n
    /\ \A j \in 1..n : ~FLess(<<1, 1>>, Arg(v[j]))
    /\ ReSum(v) = <<1, 1>>

LogVector(v) == [j \in 1..Len(v) |-> Log(v[j])]
LogMatrix(m) == [i \in 1..Len(m) |-> LogVector(m[i])]

\* MarkovModel::SetInitProbs
SetInitProbs(probs) ==
    /\ SetterCalled("SetInitProbs")
    /\ IF assert_prob_vector(probs, N_states)
       THEN /\ init_probs' = LogVector(probs)
            /\ has_init_probs' = TRUE
            /\ SetterReturns
       ELSE /\ SetterFails("assert_prob_vector")
            /\ UNCHANGED <<init_probs, has_init_probs>>
    /\ UNCHANGED <<has_trans_probs, has_symbol_emiss_probs, has_observations,
                   has_time_emiss_probs, trans_probs, symbol_emiss_probs,
                   observations, time_emiss_probs>>

\* MarkovModel::SetTransProbs
SetTransProbs(probs) ==
    /\ SetterCalled("SetTransProbs")
    /\ IF /\ Len(probs) = N_states
          /\ \A i \in 1..N_states : assert_prob_vector(probs[i], N_states)
       THEN /\ trans_probs' = LogMatrix(probs)
            /\ has_trans_probs' = TRUE
            /\ SetterReturns
       ELSE /\ SetterFails("assert_prob_vector")
            /\ UNCHANGED <<trans_probs, has_trans_probs>>
    /\ UNCHANGED <<has_init_probs, has_symbol_emiss_probs, has_observations,
                   has_time_emiss_probs, init_probs, symbol_emiss_probs,
                   observations, time_emiss_probs>>

\* HMM::SetSymbolEmissProbs
SetSymbolEmissProbs(probs) ==
    /\ SetterCalled("SetSymbolEmissProbs")
    /\ IF ~is_discrete_HMM
       THEN /\ SetterFails("is_discrete_HMM")
            /\ UNCHANGED <<symbol_emiss_probs, has_symbol_emiss_probs>>
       ELSE IF Len(probs) # N_states
       THEN /\ SetterFails("probs.size")
            /\ UNCHANGED <<symbol_emiss_probs, has_symbol_emiss_probs>>
       ELSE IF ~(\A i \in 1..N_states : assert_prob_vector(probs[i], N_symbols))
       THEN /\ SetterFails("assert_prob_vector")
            /\ UNCHANGED <<symbol_emiss_probs, has_symbol_emiss_probs>>
       ELSE /\ symbol_emiss_probs' = LogMatrix(probs)
            /\ has_symbol_emiss_probs' = TRUE
            /\ SetterReturns
    /\ UNCHANGED <<has_init_probs, has_trans_probs, has_observations,
                   has_time_emiss_probs, init_probs, trans_probs, observations,
                   time_emiss_probs>>

\* HMM::SetObservations: no check of the symbols, nor of the length
SetObservations(obs) ==
    /\ SetterCalled("SetObservations")
    /\ IF ~is_discrete_HMM
       THEN /\ SetterFails("is_discrete_HMM")
            /\ UNCHANGED <<observations, has_observations>>
       ELSE /\ observations' = obs
            /\ has_observations' = TRUE
            /\ SetterReturns
    /\ UNCHANGED <<has_init_probs, has_trans_probs, has_symbol_emiss_probs,
                   has_time_emiss_probs, init_probs, trans_probs,
                   symbol_emiss_probs, time_emiss_probs>>

\* *( max_element( row.begin(), row.end() ) ): the first largest entry
RECURSIVE MaxFrom(_, _)
MaxFrom(best, s) ==
    IF s = <<>> THEN best
    ELSE MaxFrom(IF LLess(best, Head(s)) THEN Head(s) ELSE best, Tail(s))
max_element(row) == MaxFrom(Head(row), Tail(row))

\* NormalisedTable with the largest entry taken over the timepoints of a
\* state, not over the states of a timepoint
NormalisedTableByState(probs, inf) ==
    [t \in 1..Len(probs) |->
        [j \in 1..Len(probs[t]) |->
            LSub(probs[t][j], max_element([u \in 1..Len(probs) |-> probs[u][j]]), inf)]]

\* lines 128-134 run to the end: every entry less the largest of its row
NormalisedTable(probs, inf) ==
    [t \in 1..Len(probs) |->
        [j \in 1..Len(probs[t]) |-> LSub(probs[t][j], max_element(probs[t]), inf)]]

\* _time_emiss_probs.resize( N_timepoints, vector<double>( _N_states ) ):
\* rows already there stay, new rows hold 0.0
Resized(old, T, n) ==
    [t \in 1..T |-> IF t <= Len(old) THEN old[t] ELSE [j \in 1..n |-> Ln(1, 1)]]

\* the (row, column) pairs of LOG_ZERO entries, and the first the loop meets
LogZeroAt(probs) ==
    {<<t, j>> \in (1..Len(probs)) \X (1..N_states) : probs[t][j] = LOG_ZERO}
Before(a, b) == a[1] < b[1] \/ (a[1] = b[1] /\ a[2] < b[2])
FirstLogZero(probs) ==
    CHOOSE a \in LogZeroAt(probs) : \A b \in LogZeroAt(probs) : a = b \/ Before(a, b)

\* the table after the loop of lines 128-134 ran up to, not including, stop
WrittenUpTo(old, probs, stop, inf) ==
    LET r == Resized(old, Len(probs), N_states)
    IN  [t \in 1..Len(probs) |->
            [j \in 1..N_states |->
                IF Before(<<t, j>>, stop)
                THEN LSub(probs[t][j], max_element(probs[t]), inf)
                ELSE r[t][j]]]

\* HMM::SetTimeEmissProbs
SetTimeEmissProbs(probs) ==
    /\ SetterCalled("SetTimeEmissProbs")
    /\ IF is_discrete_HMM
       THEN /\ SetterFails("!is_discrete_HMM")
            /\ UNCHANGED <<time_emiss_probs, has_time_emiss_probs>>
       ELSE IF probs = <<>>
       THEN /\ SetterFails("!probs.empty")
            /\ UNCHANGED <<time_emiss_probs, has_time_emiss_probs>>
       ELSE IF \E t \in 1..Len(probs) : Len(probs[t]) # N_states
       THEN /\ SetterFails("probs[i].size")
            /\ UNCHANGED <<time_emiss_probs, has_time_emiss_probs>>
       ELSE IF LogZeroAt(probs) # {}
       THEN \* the table is already resized and written up to the bad entry
            /\ SetterFails("probs[i][j] != LOG_ZERO")
            /\ time_emiss_probs' =
                 WrittenUpTo(time_emiss_probs, probs, FirstLogZero(probs), log_zero_inf)
            /\ UNCHANGED has_time_emiss_probs
       ELSE /\ time_emiss_probs' = NormalisedTable(probs, log_zero_inf)
            /\ has_time_emiss_probs' = TRUE
            /\ SetterReturns
    /\ UNCHANGED <<has_init_probs, has_trans_probs, has_symbol_emiss_probs,
                   has_observations, init_probs, trans_probs, symbol_emiss_probs,
                   observations>>

\* HMM::HasAllData
HasAllData ==
    IF ~has_init_probs THEN FALSE
    ELSE IF ~has_trans_probs THEN FALSE
    ELSE IF is_discrete_HMM
         THEN (IF ~has_symbol_emiss_probs THEN FALSE
               ELSE IF ~has_observations THEN FALSE
               ELSE TRUE)
         ELSE (IF ~has_time_emiss_probs THEN FALSE ELSE TRUE)

\* the HMM's tables as they stand
This == Snapshot

\* HMM::NTimepoints, of the HMM whose tables are h
TimepointsOf(h) == IF is_discrete_HMM THEN Len(h.obs) ELSE Len(h.temiss)
NTimepoints == TimepointsOf(This)

\* ------------------------------------------------------------- the trellis
\* A WDAG is the sequence of its nodes in AddNode order, node id k at index
\* k + 1; a node is the sequence of its in-edges in AddEdge order.  An edge
\* name is the sequence of the fields sprintf wrote, separated by blanks.
Edge(parent, name, weight) == [parent |-> parent, name |-> name, weight |-> weight]

\* node ids, in the order to_WDAG adds the nodes
StartId == 0
AId(t, i) == 1 + 2 * N_states * t + i
BId(t, i) == 1 + 2 * N_states * t + N_states + i
EndId(h) == 2 * N_states * TimepointsOf(h) + 1

ObsInRange(h, t) == h.obs[t + 1] >= 0 /\ h.obs[t + 1] < N_symbols

\* lines 237-246: obs and emiss_prob of state i at timepoint t.  Reading
\* _symbol_emiss_probs[i][obs] with obs outside the row is undefined: the
\* read yields whatever double lies there, stray
EmissObs(h, t) == IF is_discrete_HMM THEN h.obs[t + 1] ELSE -1
EmissProb(h, i, t, stray) ==
    IF is_discrete_HMM
    THEN (IF ObsInRange(h, t) THEN h.emiss[i + 1][h.obs[t + 1] + 1] ELSE stray)
    ELSE h.temiss[t + 1][i + 1]

\* StateAEdges with the transition read as _trans_probs[i][i_prev]
StateAEdgesTransposed(h, t, i) ==
    IF t = 0
    THEN <<Edge(StartId, <<"S", i>>, h.init[i + 1])>>
    ELSE [ip \in 1..N_states |->
            Edge(BId(t - 1, ip - 1), <<"T", ip - 1, i>>, h.trans[i + 1][ip])]

\* lines 208-221: the in-edges of stateA[i] at timepoint t
StateAEdges(h, t, i) ==
    IF t = 0
    THEN <<Edge(StartId, <<"S", i>>, h.init[i + 1])>>
    ELSE [ip \in 1..N_states |->
            Edge(BId(t - 1, ip - 1), <<"T", ip - 1, i>>, h.trans[ip][i + 1])]

\* lines 248-250: the in-edge of stateB[i] at timepoint t
StateBEdges(h, t, i, stray) ==
    <<Edge(AId(t, i), <<"E", i, EmissObs(h, t)>>, EmissProb(h, i, t, stray))>>

\* lines 258-260: the in-edges of the end node
EndEdges(h) ==
    [i \in 1..N_states |-> Edge(BId(TimepointsOf(h) - 1, i - 1), <<"F">>, Ln(1, 1))]

\* the node with id k, as to_WDAG leaves it
NodeOf(h, k, stray) ==
    IF k = StartId THEN <<>>
    ELSE IF k = EndId(h) THEN EndEdges(h)
    ELSE LET t == (k - 1) \div (2 * N_states)
             r == (k - 1) % (2 * N_states)
         IN  IF r < N_states THEN StateAEdges(h, t, r)
             ELSE StateBEdges(h, t, r - N_states, stray)

\* HMM::to_WDAG, of the HMM whose tables are h
to_WDAG(h, stray) ==
    [k \in 1..(2 * N_states * TimepointsOf(h) + 2) |-> NodeOf(h, k - 1, stray)]

\* ------------------------------------------------------- the WDAG solvers
Range(f) == {f[x] : x \in DOMAIN f}

\* every path from the start node to node k: its edge names in start-to-end
\* order and its weight, the sum of its edges' weights
RECURSIVE PathsTo(_, _)
PathsTo(wdag, k) ==
    IF k = StartId THEN {[names |-> <<>>, w |-> Ln(1, 1)]}
    ELSE UNION { { [names |-> Append(p.names, e.name), w |-> LAdd(p.w, e.weight)] :
                     p \in PathsTo(wdag, e.parent) } :
                 e \in Range(wdag[k + 1]) }

\* WDAG::FindBestPath: the values _best_edges may take.  The best weight is
\* the largest path weight into the end node; when it is LOG_ZERO there is no
\* path and _best_edges stays empty.  Which of several paths of the best
\* weight is kept is not fixed.
FindBestPath(wdag) ==
    LET all == PathsTo(wdag, Len(wdag) - 1)
        top == {p \in all : \A q \in all : ~LLess(p.w, q.w)}
    IN  IF \A p \in all : p.w = LOG_ZERO THEN {<<>>}
        ELSE {p.names : p \in top}

\* WDAG::FindPosteriorProbs, forward half: _fw_prob of nodes 0..k-1
RECURSIVE FwProbs(_, _)
FwProbs(wdag, k) ==
    IF k = 0 THEN <<>>
    ELSE LET fw == FwProbs(wdag, k - 1)
             node == wdag[k]
             terms == [j \in 1..Len(node) |-> LAdd(fw[node[j].parent + 1], node[j].weight)]
         IN  Append(fw, IF k - 1 = StartId THEN Ln(1, 1) ELSE FoldLnsum(LOG_ZERO, terms))

\* the out-edges of node u: <<child id, in-edge index>>, in child order
OutEdges(wdag, u) ==
    {<<c, j>> \in (0..(Len(wdag) - 1)) \X (1..N_states) :
        j <= Len(wdag[c + 1]) /\ wdag[c + 1][j].parent = u}

RECURSIVE SumOut(_, _, _, _)
SumOut(wdag, bw, first, out) ==
    IF out = {} THEN LOG_ZERO
    ELSE LET o == CHOOSE x \in out : TRUE
         IN  lnsum(LAdd(bw[o[1] - first + 1], wdag[o[1] + 1][o[2]].weight),
                   SumOut(wdag, bw, first, out \ {o}))

\* WDAG::FindPosteriorProbs, backward half: _bw_prob of nodes k..n-1
RECURSIVE BwProbs(_, _)
BwProbs(wdag, k) ==
    IF k = Len(wdag) THEN <<>>
    ELSE LET bw == BwProbs(wdag, k + 1)
         IN  <<IF k = Len(wdag) - 1 THEN Ln(1, 1)
               ELSE SumOut(wdag, bw, k + 1, OutEdges(wdag, k))>> \o bw

\* WDAG::Alpha: the forward probability of the end node
Alpha(wdag) == FwProbs(wdag, Len(wdag))[Len(wdag)]

\* --------------------------------------------------------- edge-name parsing
\* *iss >> type >> S1 >> S2: a field the name lacks reads as 0
Parse(name) ==
    [type |-> name[1],
     S1 |-> IF Len(name) >= 2 THEN name[2] ELSE 0,
     S2 |-> IF Len(name) >= 3 THEN name[3] ELSE 0]

\* how many edges of the list are of this type with these two fields
CountEdges(names, type, a, b) ==
    Cardinality({k \in 1..Len(names) :
        LET e == Parse(names[k]) IN e.type = type /\ e.S1 = a /\ e.S2 = b})

\* how many emission edges of the list belong to state a
CountEmissions(names, a) ==
    Cardinality({k \in 1..Len(names) :
        LET e == Parse(names[k]) IN e.type = "E" /\ e.S1 = a})

\* new != old on doubles: a NaN differs from everything
NotEqual(a, b) == IsNaN(a) \/ IsNaN(b) \/ a # b

\* ----------------------------------------------------- Viterbi re-estimation
IsEmission(name) == Parse(name).type = "E"

\* ViterbiStates with the two parsed fields mixed up: states.push_back(S2)
ViterbiStatesPushS2(best_path) ==
    LET em == SelectSeq(best_path, IsEmission)
    IN  [k \in 1..Len(em) |-> Parse(em[k]).S2]

\* lines 291-312, states: S1 of every emission edge, in path order
ViterbiStates(best_path) ==
    LET em == SelectSeq(best_path, IsEmission)
    IN  [k \in 1..Len(em) |-> Parse(em[k]).S1]

\* lines 286, 302: trans_counts[i][j]
trans_counts(best_path, i, j) == CountEdges(best_path, "T", i, j)

\* lines 287, 306: emiss_counts[i][s]; an increment outside the row (s not a
\* symbol) lands in no entry of the table
emiss_counts(best_path, i, s) == CountEdges(best_path, "E", i, s)

\* lines 288, 307: state_counts[i]
state_counts(best_path, i) == CountEmissions(best_path, i)

\* ViterbiNewProb without the uniform row for a state nothing was counted for
ViterbiNewProbNoFallback(count, total, n) ==
    IF total = 0 THEN LOG_ZERO ELSE Log(Re(count, total))

\* lines 333-336 and 353-356: the new log-probability of one entry
ViterbiNewProb(count, total, n) ==
    IF total = 0 THEN Ln(1, n) ELSE Log(Re(count, total))

\* lines 326-341: the new _trans_probs
ViterbiTrans(best_path) ==
    [i \in 1..N_states |->
        LET row == [j \in 1..N_states |-> trans_counts(best_path, i - 1, j - 1)]
            total == SeqSum(row)
        IN  [j \in 1..N_states |-> ViterbiNewProb(row[j], total, N_states)]]

\* lines 345-361: the new _symbol_emiss_probs (discrete HMMs only)
ViterbiEmiss(best_path) ==
    [i \in 1..N_states |->
        LET row == [s \in 1..N_symbols |-> emiss_counts(best_path, i - 1, s - 1)]
            total == SeqSum(row)
        IN  [s \in 1..N_symbols |-> ViterbiNewProb(row[s], total, N_symbols)]]

\* lines 319-321: _state_freqs[i] = double( state_counts[i] ) / NTimepoints()
ViterbiFreqs(best_path) ==
    [i \in 1..N_states |-> Re(state_counts(best_path, i - 1), NTimepoints)]

\* some entry of the new matrix is != the old one's
MatrixChanged(old, new) ==
    \E i \in DOMAIN new : \E j \in DOMAIN new[i] : NotEqual(old[i][j], new[i][j])
VectorChanged(old, new) == \E j \in DOMAIN new : NotEqual(old[j], new[j])

\* ViterbiChange without the comparison of line 358
ViterbiChangeTransOnly(best_path) ==
    MatrixChanged(trans_probs, ViterbiTrans(best_path))

\* lines 316, 338, 358: the flag AdjustProbsToViterbi returns
ViterbiChange(best_path) ==
    \/ MatrixChanged(trans_probs, ViterbiTrans(best_path))
    \/ (is_discrete_HMM /\ MatrixChanged(symbol_emiss_probs, ViterbiEmiss(best_path)))

\* a training call ran to its end; after a read past a row (sound = FALSE)
\* the process is in no defined state and is followed no further
TrainingReturns(sound) ==
    /\ last_err' = IF sound THEN "" ELSE "undefined: read past the row"
    /\ halted' = ~sound

\* AdjustProbsToViterbi with the frequencies resized and zeroed before the
\* path is asserted non-empty
AdjustProbsToViterbiLateAssert(best_path, sound) ==
    IF best_path = <<>> \/ Len(ViterbiStates(best_path)) # NTimepoints
    THEN /\ AssertFails(IF best_path = <<>> THEN "!best_path.empty" ELSE "states.size")
         /\ state_freqs' = ViterbiFreqs(best_path)
         /\ predicted_states' = ViterbiStates(best_path)
         /\ UNCHANGED <<trans_probs, symbol_emiss_probs, change, ran_viterbi>>
    ELSE /\ predicted_states' = ViterbiStates(best_path)
         /\ state_freqs' = ViterbiFreqs(best_path)
         /\ trans_probs' = ViterbiTrans(best_path)
         /\ symbol_emiss_probs' =
              IF is_discrete_HMM THEN ViterbiEmiss(best_path) ELSE symbol_emiss_probs
         /\ change' = ViterbiChange(best_path)
         /\ ran_viterbi' = TRUE
         /\ TrainingReturns(sound)

\* HMM::AdjustProbsToViterbi, with what ViterbiTraining does after it
AdjustProbsToViterbi(best_path, sound) ==
    IF best_path = <<>>
    THEN /\ AssertFails("!best_path.empty")
         /\ UNCHANGED <<trans_probs, symbol_emiss_probs, state_freqs, change,
                        predicted_states, ran_viterbi>>
    ELSE IF Len(ViterbiStates(best_path)) # NTimepoints
    THEN /\ AssertFails("states.size")
         /\ predicted_states' = ViterbiStates(best_path)
         /\ UNCHANGED <<trans_probs, symbol_emiss_probs, state_freqs, change,
                        ran_viterbi>>
    ELSE /\ predicted_states' = ViterbiStates(best_path)
         /\ state_freqs' = ViterbiFreqs(best_path)
         /\ trans_probs' = ViterbiTrans(best_path)
         /\ symbol_emiss_probs' =
              IF is_discrete_HMM THEN ViterbiEmiss(best_path) ELSE symbol_emiss_probs
         /\ change' = ViterbiChange(best_path)
         /\ ran_viterbi' = TRUE
         /\ TrainingReturns(sound)

\* no table the trellis is built from holds a NaN
NoNaN ==
    /\ \A i \in DOMAIN init_probs : ~IsNaN(init_probs[i])
    /\ \A i \in DOMAIN trans_probs : \A j \in DOMAIN trans_probs[i] :
          ~IsNaN(trans_probs[i][j])
    /\ \A i \in DOMAIN symbol_emiss_probs : \A j \in DOMAIN symbol_emiss_probs[i] :
          ~IsNaN(symbol_emiss_probs[i][j])

\* an observation the alphabet does not hold
BadObservationIn(h) ==
    is_discrete_HMM /\ \E t \in 0..(TimepointsOf(h) - 1) : ~ObsInRange(h, t)
BadObservation == BadObservationIn(This)

\* doubles a read past the end of a row of _symbol_emiss_probs may yield
StrayDoubles == {LOG_ZERO, Ln(1, 2)}

\* a training call is made
TrainingCalled(op) ==
    /\ Called(op)
    /\ n_train < MaxTrain
    /\ n_train' = n_train + 1
    /\ HasAllData => NoNaN

\* ViterbiTraining re-estimating _init_probs as well, from the state the
\* best path starts in
ViterbiTrainingSettingInit ==
    /\ TrainingCalled("ViterbiTraining")
    /\ IF ~HasAllData \/ NTimepoints = 0
       THEN /\ AssertFails(IF ~HasAllData THEN "HasAllData" ELSE "undefined: null parent")
            /\ UNCHANGED <<init_probs, trans_probs, symbol_emiss_probs, state_freqs,
                           change, predicted_states, ran_viterbi, best_edges>>
       ELSE IF BadObservation
       THEN \/ /\ AssertFails("undefined: crash")
               /\ UNCHANGED <<init_probs, trans_probs, symbol_emiss_probs, state_freqs,
                              change, predicted_states, ran_viterbi, best_edges>>
            \/ \E stray \in StrayDoubles : \E path \in FindBestPath(to_WDAG(This, stray)) :
                 /\ best_edges' = path
                 /\ AdjustProbsToViterbi(path, FALSE)
                 /\ UNCHANGED init_probs
       ELSE \E path \in FindBestPath(to_WDAG(This, LOG_ZERO)) :
                 /\ best_edges' = path
                 /\ AdjustProbsToViterbi(path, TRUE)
                 /\ init_probs' =
                      IF path = <<>> THEN init_probs
                      ELSE [i \in 1..N_states |->
                              IF Parse(path[1]).S1 = i - 1 THEN Ln(1, 1) ELSE LOG_ZERO]
    /\ log_like' = NoLogLike
    /\ UNCHANGED <<N_states, N_symbols, log_zero_inf, flags, ran_baum_welch,
                   observations, time_emiss_probs>>

\* HMM::ViterbiTraining
ViterbiTraining ==
    /\ TrainingCalled("ViterbiTraining")
    /\ IF ~HasAllData
       THEN /\ AssertFails("HasAllData")
            /\ UNCHANGED <<trans_probs, symbol_emiss_probs, state_freqs, change,
                           predicted_states, ran_viterbi, best_edges>>
       ELSE IF NTimepoints = 0
       THEN \* to_WDAG hands the null pointers of stateB to AddEdge
            /\ AssertFails("undefined: null parent")
            /\ UNCHANGED <<trans_probs, symbol_emiss_probs, state_freqs, change,
                           predicted_states, ran_viterbi, best_edges>>
       ELSE IF BadObservation
       THEN \* to_WDAG reads past the end of a row: the process dies there, or
            \* goes on with the double it found and is not to be trusted after
            \/ /\ AssertFails("undefined: crash")
               /\ UNCHANGED <<trans_probs, symbol_emiss_probs, state_freqs, change,
                              predicted_states, ran_viterbi, best_edges>>
            \/ \E stray \in StrayDoubles : \E path \in FindBestPath(to_WDAG(This, stray)) :
                 /\ best_edges' = path
                 /\ AdjustProbsToViterbi(path, FALSE)
       ELSE \E path \in FindBestPath(to_WDAG(This, LOG_ZERO)) :
                 /\ best_edges' = path
                 /\ AdjustProbsToViterbi(path, TRUE)
    /\ log_like' = NoLogLike
    /\ UNCHANGED <<N_states, N_symbols, log_zero_inf, flags, ran_baum_welch,
                   init_probs, observations, time_emiss_probs>>

\* -------------------------------------------------- Baum-Welch re-estimation
\* the edges of the WDAG, as <<child id, in-edge index>>
AllEdges(wdag) ==
    {<<c, j>> \in (0..(Len(wdag) - 1)) \X (1..N_states) : j <= Len(wdag[c + 1])}

\* line 403: p_prob = parent->_fw_prob + child->_bw_prob + edge_weight
PosteriorOf(wdag, fw, bw, e) ==
    LET edge == wdag[e[1] + 1][e[2]]
    IN  LAdd(LAdd(fw[edge.parent + 1], bw[e[1] + 1]), edge.weight)

\* lnsum of p_prob over a set of edges, from LOG_ZERO
RECURSIVE LnsumOver(_, _, _, _)
LnsumOver(wdag, fw, bw, es) ==
    IF es = {} THEN LOG_ZERO
    ELSE LET e == CHOOSE x \in es : TRUE
         IN  lnsum(LnsumOver(wdag, fw, bw, es \ {e}), PosteriorOf(wdag, fw, bw, e))

\* the edges whose name parses to this type and S1 (and S2, when given)
EdgesNamed1(wdag, type, a) ==
    {e \in AllEdges(wdag) :
        LET n == Parse(wdag[e[1] + 1][e[2]].name) IN n.type = type /\ n.S1 = a}
EdgesNamed2(wdag, type, a, b) ==
    {e \in AllEdges(wdag) :
        LET n == Parse(wdag[e[1] + 1][e[2]].name)
        IN  n.type = type /\ n.S1 = a /\ n.S2 = b}

\* lines 384-437: the accumulated tables
new_init_probs(wdag, fw, bw) ==
    [i \in 1..N_states |-> LnsumOver(wdag, fw, bw, EdgesNamed1(wdag, "S", i - 1))]
new_trans_probs(wdag, fw, bw) ==
    [i \in 1..N_states |-> [j \in 1..N_states |->
        LnsumOver(wdag, fw, bw, EdgesNamed2(wdag, "T", i - 1, j - 1))]]
new_emiss_probs(wdag, fw, bw) ==
    [i \in 1..N_states |-> [s \in 1..N_symbols |->
        LnsumOver(wdag, fw, bw, EdgesNamed2(wdag, "E", i - 1, s - 1))]]
new_state_freqs(wdag, fw, bw) ==
    [i \in 1..N_states |-> LnsumOver(wdag, fw, bw, EdgesNamed1(wdag, "E", i - 1))]

\* lines 431, 440: n_emissions
n_emissions(wdag) ==
    Cardinality({e \in AllEdges(wdag) : Parse(wdag[e[1] + 1][e[2]].name).type = "E"})

\* row[j] - denom with denom the lnsum of the row
NormaliseRow(row, inf) ==
    LET denom == FoldLnsum(LOG_ZERO, row)
    IN  [j \in 1..Len(row) |-> LSub(row[j], denom, inf)]

\* lines 447-452
BaumWelchFreqs(acc, inf) ==
    LET n == NormaliseRow(acc, inf) IN [j \in 1..Len(acc) |-> Exp(n[j])]

\* lines 457-464
BaumWelchInit(acc, inf) == NormaliseRow(acc, inf)

\* lines 469-478 and 483-493
BaumWelchMatrix(acc, inf) == [i \in 1..Len(acc) |-> NormaliseRow(acc[i], inf)]

\* BaumWelchChange without the comparison of line 462
BaumWelchChangeNoInit(newinit, newtrans, newemiss) ==
    \/ MatrixChanged(trans_probs, newtrans)
    \/ (is_discrete_HMM /\ MatrixChanged(symbol_emiss_probs, newemiss))

\* lines 442, 462, 475, 490: the flag AdjustProbsToBaumWelch returns
BaumWelchChange(newinit, newtrans, newemiss) ==
    \/ VectorChanged(init_probs, newinit)
    \/ MatrixChanged(trans_probs, newtrans)
    \/ (is_discrete_HMM /\ MatrixChanged(symbol_emiss_probs, newemiss))

\* HMM::AdjustProbsToBaumWelch, with what BaumWelchTraining does after it
AdjustProbsToBaumWelch(wdag, sound) ==
    LET fw == FwProbs(wdag, Len(wdag))
        bw == BwProbs(wdag, 0)
        newinit == BaumWelchInit(new_init_probs(wdag, fw, bw), log_zero_inf)
        newtrans == BaumWelchMatrix(new_trans_probs(wdag, fw, bw), log_zero_inf)
        newemiss == BaumWelchMatrix(new_emiss_probs(wdag, fw, bw), log_zero_inf)
    IN  IF n_emissions(wdag) # NTimepoints * N_states
        THEN /\ AssertFails("n_emissions")
             /\ UNCHANGED <<init_probs, trans_probs, symbol_emiss_probs, state_freqs,
                            change, log_like, ran_baum_welch>>
        ELSE /\ state_freqs' = BaumWelchFreqs(new_state_freqs(wdag, fw, bw), log_zero_inf)
             /\ init_probs' = newinit
             /\ trans_probs' = newtrans
             /\ symbol_emiss_probs' =
                  IF is_discrete_HMM THEN newemiss ELSE symbol_emiss_probs
             /\ change' = BaumWelchChange(newinit, newtrans, newemiss)
             /\ ran_baum_welch' = TRUE
             /\ log_like' = ToBits(Alpha(wdag))
             /\ TrainingReturns(sound)

\* HMM::BaumWelchTraining
BaumWelchTraining ==
    /\ TrainingCalled("BaumWelchTraining")
    /\ IF ~HasAllData
       THEN /\ AssertFails("HasAllData")
            /\ UNCHANGED <<init_probs, trans_probs, symbol_emiss_probs, state_freqs,
                           change, log_like, ran_baum_welch>>
       ELSE IF NTimepoints = 0
       THEN /\ AssertFails("undefined: null parent")
            /\ UNCHANGED <<init_probs, trans_probs, symbol_emiss_probs, state_freqs,
                           change, log_like, ran_baum_welch>>
       ELSE IF BadObservation
       THEN \/ /\ AssertFails("undefined: crash")
               /\ UNCHANGED <<init_probs, trans_probs, symbol_emiss_probs, state_freqs,
                              change, log_like, ran_baum_welch>>
            \/ \E stray \in StrayDoubles : AdjustProbsToBaumWelch(to_WDAG(This, stray), FALSE)
       ELSE AdjustProbsToBaumWelch(to_WDAG(This, LOG_ZERO), TRUE)
    /\ predicted_states' = NoStates
    /\ best_edges' = NoEdges
    /\ UNCHANGED <<N_states, N_symbols, log_zero_inf, flags, ran_viterbi,
                   observations, time_emiss_probs>>

\* ---------------------------------------------------------- specification
Next ==
    \/ \E probs \in ProbVectors(N_states) \cup BadVectors(N_states) : SetInitProbs(probs)
    \/ \E probs \in ProbMatrices(N_states, N_states) \cup BadMatrices(N_states, N_states) :
          SetTransProbs(probs)
    \/ \E probs \in IF is_discrete_HMM
                    THEN ProbMatrices(N_states, N_symbols) \cup BadMatrices(N_states, N_symbols)
                    ELSE ProbMatrices(N_states, 1) :
          SetSymbolEmissProbs(probs)
    \/ \E obs \in ObservationInputs : SetObservations(obs)
    \/ \E probs \in TimeEmissInputs \cup BadTimeEmissInputs : SetTimeEmissProbs(probs)
    \/ ViterbiTraining
    \/ BaumWelchTraining

Spec == Init /\ [][Next]_vars

\* ================================================================== claims
Training == {"ViterbiTraining", "BaumWelchTraining"}

\* the last call was this training call and it ran to its end, no
\* undefined read on the way
Completed(op) == last_op = op /\ last_err = "" /\ ~halted

\* exp of the entries of a row of logarithms sums to 1
SumsToOne(row) ==
    /\ \A j \in DOMAIN row : ~IsNaN(row[j])
    /\ ReSum(row) = <<1, 1>>

\* C1: after any completed training call every row of trans_log and, in
\* discrete models, of symbol_emiss_log is a probability distribution (its
\* real-space entries sum to 1); so is init_log after baum_welch_training.
C1_RowsAreDistributions ==
    (\E op \in Training : Completed(op)) =>
        /\ \A i \in 1..N_states : SumsToOne(trans_probs[i])
        /\ is_discrete_HMM => \A i \in 1..N_states : SumsToOne(symbol_emiss_probs[i])
        /\ Completed("BaumWelchTraining") => SumsToOne(init_probs)

\* C2: when viterbi_training succeeds, predicted_states has exactly T
\* entries, each a state id in [0, N), and the t-th entry is the state of
\* the emission edge the best path takes at timepoint t (the path runs
\* S, E, T, E, ..., T, E, F: its 2t-th edge is the emission edge of the
\* t-th timepoint).
C2_PredictedStates ==
    Completed("ViterbiTraining") =>
        /\ Len(predicted_states) = NTimepoints
        /\ Len(best_edges) = 2 * NTimepoints + 1
        /\ \A t \in 1..NTimepoints :
              /\ predicted_states[t] \in 0..(N_states - 1)
              /\ best_edges[2 * t] = <<"E", predicted_states[t], EmissObs(This, t - 1)>>

\* a Viterbi call over two timepoints that predicted two different states
C2_Witness ==
    /\ Completed("ViterbiTraining")
    /\ Len(predicted_states) = 2
    /\ predicted_states[1] # predicted_states[2]

\* the state sequences of an HMM over its timepoints, and whether the
\* tables h give one of them a weight other than LOG_ZERO: no edge of its
\* trellis path (start, transitions, emissions) weighs LOG_ZERO
StateSeqs(h) == [1..TimepointsOf(h) -> 1..N_states]
Allowed(h, s) ==
    /\ h.init[s[1]] # LOG_ZERO
    /\ \A t \in 1..(TimepointsOf(h) - 1) : h.trans[s[t]][s[t + 1]] # LOG_ZERO
    /\ \A t \in 1..TimepointsOf(h) : EmissProb(h, s[t] - 1, t - 1, LOG_ZERO) # LOG_ZERO
Feasible(h) == \E s \in StateSeqs(h) : Allowed(h, s)

\* the last call was ViterbiTraining and it got as far as the best path,
\* no undefined read on the way
ViterbiSolved ==
    /\ last_op = "ViterbiTraining"
    /\ last_err \in {"", "!best_path.empty", "states.size"}
    /\ ~BadObservationIn(pre)
NoPath == ViterbiSolved /\ last_err = "!best_path.empty"

\* C3: viterbi_training fails with NoPath exactly when every start-to-end
\* path of the trellis uses a LOG_ZERO edge (so not merely because some
\* init_log[i] is LOG_ZERO), and after the failed call init_log, trans_log,
\* symbol_emiss_log and state_freqs are what they were before it.
C3_NoPath ==
    ViterbiSolved =>
        /\ NoPath <=> ~Feasible(pre)
        /\ NoPath =>
              /\ init_probs = pre.init
              /\ trans_probs = pre.trans
              /\ symbol_emiss_probs = pre.emiss
              /\ state_freqs = pre.freqs

\* a Viterbi call that failed with NoPath on a two-state HMM
C3_Witness == NoPath /\ N_states = 2 /\ TimepointsOf(pre) = 2

\* a Viterbi call that succeeded although an initial probability is zero
C3_DegenerateStart ==
    /\ Completed("ViterbiTraining")
    /\ \E i \in 1..N_states : pre.init[i] = LOG_ZERO

\* the last call was BaumWelchTraining and it got as far as the posterior
\* probabilities, no undefined read on the way
BaumWelchSolved ==
    /\ last_op = "BaumWelchTraining"
    /\ last_err \in {"", "n_emissions"}
    /\ ~BadObservationIn(pre)

\* C4: when the parameters forbid every trajectory consistent with the
\* observations (no start-to-end path of the trellis has a weight other than
\* LOG_ZERO, alpha = LOG_ZERO), baum_welch_training ends in an error and
\* leaves init_log, trans_log and symbol_emiss_log as they were.
C4_ForbiddenTrajectory ==
    (BaumWelchSolved /\ ~Feasible(pre)) =>
        /\ last_err # ""
        /\ init_probs = pre.init
        /\ trans_probs = pre.trans
        /\ symbol_emiss_probs = pre.emiss

\* a training call went on to build its trellis although an observation is
\* no symbol of the alphabet
TrellisFromBadObservation ==
    /\ last_op \in Training
    /\ last_err # "HasAllData"
    /\ BadObservationIn(pre)

\* C5: an observation sequence holding a symbol outside [0, n_symbols) is
\* rejected with an error: no training call builds a trellis from, or
\* indexes symbol_emiss_log with, such a symbol.
C5_BadSymbolRejected == ~TrellisFromBadObservation

Setters == {"SetInitProbs", "SetTransProbs", "SetSymbolEmissProbs",
            "SetObservations", "SetTimeEmissProbs"}

\* C6: has_all_data is true exactly when the initial and transition tables
\* are loaded and, for a discrete HMM, symbol emissions and observations
\* are, or, for a continuous HMM, the time emissions are; a setter called on
\* the wrong variant or with invalid input fails, and a failed setter sets
\* no loaded flag.
C6_Readiness ==
    /\ HasAllData <=>
          /\ has_init_probs /\ has_trans_probs
          /\ IF N_symbols > 0 THEN has_symbol_emiss_probs /\ has_observations
                              ELSE has_time_emiss_probs
    /\ (last_op \in Setters /\ last_err # "") => flags = pre.flags
    /\ (last_op \in {"SetSymbolEmissProbs", "SetObservations"} /\ N_symbols = 0) =>
          last_err # ""
    /\ (last_op = "SetTimeEmissProbs" /\ N_symbols > 0) => last_err # ""
    /\ (last_op = "SetObservations" /\ BadObservation) => last_err # ""

\* how often the edge with this name lies on the best path of the last call
OnBestPath(name) == Cardinality({k \in 1..Len(best_edges) : best_edges[k] = name})

\* the row the claim prescribes from a row of counts: uniform over its n
\* entries when nothing was counted, the relative frequencies otherwise
RowFromCounts(counts, n) ==
    LET total == SeqSum(counts)
    IN  [j \in 1..n |-> IF total = 0 THEN Log(Re(1, n))
                        ELSE Log(Re(counts[j], total))]
TransCountsRow(i) == [j \in 1..N_states |-> OnBestPath(<<"T", i - 1, j - 1>>)]
EmissCountsRow(i) == [s \in 1..N_symbols |-> OnBestPath(<<"E", i - 1, s - 1>>)]

\* C7: after a successful Viterbi re-estimation, row i of trans_log is
\* log(1/N) throughout when no transition edge out of state i lies on the
\* best path, and log(trans_counts[i][j] / total_i) otherwise; in discrete
\* models row i of symbol_emiss_log is set the same way from the emission
\* counts, with log(1/n_symbols) as the fallback.
C7_ViterbiRows ==
    Completed("ViterbiTraining") =>
        \A i \in 1..N_states :
            /\ trans_probs[i] = RowFromCounts(TransCountsRow(i), N_states)
            /\ is_discrete_HMM =>
                 symbol_emiss_probs[i] = RowFromCounts(EmissCountsRow(i), N_symbols)

\* a Viterbi call on a discrete two-state, two-symbol HMM after which one
\* state has counted transitions and another has neither transitions nor
\* emissions counted
C7_Witness ==
    /\ Completed("ViterbiTraining")
    /\ N_states = 2 /\ N_symbols = 2
    /\ \E i \in 1..N_states : SeqSum(TransCountsRow(i)) > 0
    /\ \E i \in 1..N_states :
          /\ SeqSum(TransCountsRow(i)) = 0
          /\ SeqSum(EmissCountsRow(i)) = 0
          /\ trans_probs[i] = <<Ln(1, 2), Ln(1, 2)>>
          /\ symbol_emiss_probs[i] = <<Ln(1, 2), Ln(1, 2)>>

C8_Changed == (\E op \in Training : Completed(op)) /\ change

\* a Baum-Welch call that follows a Baum-Welch call which returned false
AfterConvergence ==
    /\ Completed("BaumWelchTraining")
    /\ pre.op = "BaumWelchTraining"
    /\ ~pre.change

\* C9: once baum_welch_training on fixed data has returned changed = false,
\* a later baum_welch_training call on the same HMM and data returns
\* changed = false and the log_likelihood the earlier call returned.
C9_Converged == AfterConvergence => (~change /\ log_like = pre.log_like)

\* two Baum-Welch calls in a row on a two-state HMM, the first returning false
C9_Witness == AfterConvergence /\ N_states = 2 /\ NTimepoints = 2

\* what one Baum-Welch step makes of the tables h: the updated init_log,
\* trans_log and state_freqs
BaumWelchStep(h) ==
    LET wdag == to_WDAG(h, LOG_ZERO)
        fw == FwProbs(wdag, Len(wdag))
        bw == BwProbs(wdag, 0)
    IN  <<BaumWelchInit(new_init_probs(wdag, fw, bw), log_zero_inf),
          BaumWelchMatrix(new_trans_probs(wdag, fw, bw), log_zero_inf),
          BaumWelchFreqs(new_state_freqs(wdag, fw, bw), log_zero_inf)>>

\* the constants added to a row, as logarithms, and the table with c added
\* to every entry of row t
RowShifts == {Ln(4, 1), Ln(1, 4)}
ShiftRow(probs, t, c) ==
    [u \in 1..Len(probs) |->
        IF u = t THEN [j \in 1..Len(probs[u]) |-> LAdd(probs[u][j], c)]
        ELSE probs[u]]

\* the tables SetTimeEmissProbs may have been given to store what the last
\* call started from
SuppliedTables ==
    {probs \in TimeEmissInputs : NormalisedTable(probs, log_zero_inf) = pre.temiss}

\* C10: for a continuous HMM, a baum_welch_training step from the same
\* init_log and trans_log on a time-emission table that differs from the
\* supplied one by a constant added to every entry of one row gives the
\* same updated init_log, trans_log and state_freqs.
C10_RowShift ==
    (Completed("BaumWelchTraining") /\ ~is_discrete_HMM) =>
        \A probs \in SuppliedTables : \A t \in 1..Len(probs) : \A c \in RowShifts :
            BaumWelchStep([pre EXCEPT !.temiss =
                 NormalisedTable(ShiftRow(probs, t, c), log_zero_inf)])
              = <<init_probs, trans_probs, state_freqs>>

\* a Baum-Welch call on a continuous two-state HMM over two timepoints whose
\* rows of emission likelihoods are not flat, so that adding to one row
\* would matter if the rows were not normalised one by one
C10_Witness ==
    /\ Completed("BaumWelchTraining") /\ ~is_discrete_HMM
    /\ N_states = 2 /\ NTimepoints = 2
    /\ SuppliedTables # {}
    /\ pre.temiss[1][1] # pre.temiss[1][2]
    /\ pre.temiss[2][1] # pre.temiss[2][2]

\* the log_like BaumWelchTraining returns on the tables h, in bits
LogLikeOf(h) == ToBits(Alpha(to_WDAG(h, LOG_ZERO)))

\* a log-likelihood in bits with c (a logarithm in nats) / log 2 added
BitsShifted(bits, c) ==
    IF IsNaN(bits) THEN NaN
    ELSE LET f == FMul(<<bits[2], bits[3]>>, Arg(c)) IN <<"lb", f[1], f[2]>>

\* C11: for a continuous HMM, adding a constant c to every entry of one row
\* of the time-emission table the caller supplies shifts the alpha that
\* baum_welch_training computes by c, and the returned log_likelihood in
\* bits by c / log 2.
C11_AlphaShift ==
    (Completed("BaumWelchTraining") /\ ~is_discrete_HMM) =>
        \A probs \in SuppliedTables : \A t \in 1..Len(probs) : \A c \in RowShifts :
            LogLikeOf([pre EXCEPT !.temiss =
                 NormalisedTable(ShiftRow(probs, t, c), log_zero_inf)])
              = BitsShifted(log_like, c)

\* the last call was ViterbiTraining and it returned or failed an assertion
\* (a call that read outside a table has no defined outcome)
ViterbiEnded ==
    /\ last_op = "ViterbiTraining"
    /\ last_err \in {"", "HasAllData", "!best_path.empty", "states.size"}

\* C12: a Viterbi training call, successful or failed, leaves init_log as
\* it found it, while a completed Baum-Welch call assigns init_log the
\* normalised posterior of the start edges.
C12_InitUntouched ==
    /\ ViterbiEnded => init_probs = pre.init
    /\ Completed("BaumWelchTraining") => init_probs = BaumWelchStep(pre)[1]

\* a Viterbi call that rewrote the transition table of a two-state HMM whose
\* best path starts in a state init_log does not give probability 1
C12_Witness ==
    /\ Completed("ViterbiTraining")
    /\ N_states = 2
    /\ trans_probs # pre.trans
    /\ \A i \in 1..N_states : init_probs[i] # Ln(1, 1)

\* a Baum-Welch call that changed init_log
C12_Reassigned == Completed("BaumWelchTraining") /\ init_probs # pre.init

\* the last call was a training call that built its trellis from defined
\* reads: it had all data, at least one timepoint and symbols of the alphabet
TrellisBuilt ==
    /\ last_op \in Training
    /\ last_err \in {"", "!best_path.empty", "states.size", "n_emissions"}
    /\ ~BadObservationIn(pre)

\* the trellis the last training call built, and its edges as records
LastTrellis == to_WDAG(pre, LOG_ZERO)
EdgesOf(wdag) ==
    UNION {{[child |-> k - 1, parent |-> wdag[k][j].parent,
             name |-> wdag[k][j].name, weight |-> wdag[k][j].weight] :
               j \in 1..Len(wdag[k])} : k \in 1..Len(wdag)}
EdgeCount(wdag) == SeqSum([k \in 1..Len(wdag) |-> Len(wdag[k])])

\* the nodes of the claim: start, A_t[i], B_t[i] (t, i from 0), end
NodeA(t, i) == 1 + (2 * t) * N_states + i
NodeB(t, i) == 1 + (2 * t + 1) * N_states + i
LastT == TimepointsOf(pre)
LastEmission(t, i) ==
    IF N_symbols > 0 THEN pre.emiss[i + 1][pre.obs[t + 1] + 1] ELSE pre.temiss[t + 1][i + 1]

\* the edges the claim lists
StartEdges ==
    {[child |-> NodeA(0, i), parent |-> 0, name |-> <<"S", i>>,
      weight |-> pre.init[i + 1]] : i \in 0..(N_states - 1)}
TransitionEdges ==
    {[child |-> NodeA(x[1], x[3]), parent |-> NodeB(x[1] - 1, x[2]),
      name |-> <<"T", x[2], x[3]>>, weight |-> pre.trans[x[2] + 1][x[3] + 1]] :
        x \in (1..(LastT - 1)) \X (0..(N_states - 1)) \X (0..(N_states - 1))}
EmissionEdges ==
    {[child |-> NodeB(x[1], x[2]), parent |-> NodeA(x[1], x[2]),
      name |-> <<"E", x[2], IF N_symbols > 0 THEN pre.obs[x[1] + 1] ELSE -1>>,
      weight |-> LastEmission(x[1], x[2])] :
        x \in (0..(LastT - 1)) \X (0..(N_states - 1))}
FinishEdges ==
    {[child |-> 2 * N_states * LastT + 1, parent |-> NodeB(LastT - 1, i),
      name |-> <<"F">>, weight |-> Ln(1, 1)] : i \in 0..(N_states - 1)}

\* C13: the trellis a training call builds for N states and T >= 1
\* timepoints has 2*N*T + 2 nodes and exactly the N start edges, the
\* N*N*(T-1) transition edges, the N*T emission edges and the N finish edges
\* of the construction, each once, with the weights of init_log, trans_log
\* and the emission table; every edge's parent id is below its child id.
C13_Trellis ==
    TrellisBuilt =>
        /\ LastT >= 1
        /\ Len(LastTrellis) = 2 * N_states * LastT + 2
        /\ EdgesOf(LastTrellis) =
              StartEdges \cup TransitionEdges \cup EmissionEdges \cup FinishEdges
        /\ EdgeCount(LastTrellis) =
              2 * N_states + N_states * N_states * (LastT - 1) + N_states * LastT
        /\ \A e \in EdgesOf(LastTrellis) : e.parent < e.child
        /\ Cardinality({e \in EdgesOf(LastTrellis) : e.name[1] = "E"}) = N_states * LastT

\* a training call that built the trellis of a two-state HMM over two
\* timepoints whose transition table is not symmetric
C13_Witness ==
    /\ TrellisBuilt
    /\ N_states = 2 /\ LastT = 2
    /\ pre.trans[1][2] # pre.trans[2][1]

\* C14: whenever has_all_data is true the HMM has at least one timepoint,
\* discrete or continuous, so that no training call builds a trellis whose
\* finish edges have no B node to start from, or divides by T = 0.
C14_AtLeastOneTimepoint ==
    /\ HasAllData => NTimepoints >= 1
    /\ last_op \in Training => last_err # "undefined: null parent"

====
